---- MODULE Spec2Model ----
(***************************************************************************)
(* Model of lib/run_util.py: the run-wide settings, the failure-reporting  *)
(* process wrapper, the combinator cross, the local executor run_configs   *)
(* (unbounded and bounded by a semaphore), the partitioner _divide_equally *)
(* and the PBS submitter submit_configs.                                   *)
(*                                                                         *)
(* A configuration is identified by its position 1..n in the sequence the  *)
(* caller passes; its name is that number.  Strings the code inspects      *)
(* character by character (the prefix, job names, job identifiers) are     *)
(* sequences of one-character strings.                                     *)
(***************************************************************************)
EXTENDS Integers, Sequences, FiniteSets, TLC

\* ------------------------------------------------------------------ bounds
\* Cap on the configurations handed to all the calls of one process together
\* (a call over no configuration counting for one), hence also on the
\* configurations of one call.
MaxWork == 3
\* Largest max_parallel handed to run_configs.
MaxParallel == 2
\* Largest per_job handed to submit_configs.
MaxPerJob == 2
\* Largest input length and max_len of the stand-alone partitioner runs.
MaxItems == 11
MaxLen == 5

VARIABLES
    prefix,          \* _prefix
    afterCmd,        \* _after_cmd: "None" or the template (a sequence)
    dryRunMode,      \* _dry_run_mode
    popen,           \* what the global name Popen_reporting is bound to
    argvNoDry,       \* '--no-dry' in sys.argv
    stats,           \* class stats: ran, submitted, jobs
    pc,              \* position of the calling thread
    call,            \* the call in progress: its arguments, the counters and the
                     \* directories at its entry, its after-command launches
    idx,             \* loop variable of the calling thread
    sem,             \* value of the semaphore `bound`
    thr,             \* the worker threads of the bounded path, by configuration
    procs,           \* external processes of this call, by configuration (0: after-command)
    handles,         \* `processes` of _run_configs_all
    gen,             \* state of the _divide_equally generator
    job,             \* locals of the submit_configs loop body
    qsubs,           \* invocations of the queue command in this call
    fs,              \* file system: directories that exist, files this call wrote
    out,             \* standard output of this call
    err,             \* standard error of this call, by the label of its lines
    work,            \* history: configurations handed to run_configs / submit_configs
    groups,          \* the list that list(_divide_equally(...)) builds
    config_lists,    \* the arguments of a cross(...) call
    frames,          \* the generators of that call: per nesting level, the
                     \* items its loop over `confs` has taken
    passed,          \* the generators among those arguments (results of
                     \* cross themselves): how far each has run
    product          \* the list that list(cross(...)) builds

vars == <<prefix, afterCmd, dryRunMode, popen, argvNoDry, stats, pc, call, idx,
          sem, thr, procs, handles, gen, job, qsubs, fs, out, err, work, groups,
          config_lists, frames, passed, product>>

crossState == <<config_lists, frames, passed, product>>

\* ------------------------------------------------------- string helpers
RECURSIVE Split(_, _)
\* s.split(sep): always at least one segment
Split(s, sep) ==
    IF \A k \in 1..Len(s) : s[k] # sep
    THEN <<s>>
    ELSE LET k == CHOOSE k \in 1..Len(s) :
                      s[k] = sep /\ \A m \in 1..(k-1) : s[m] # sep
         IN  <<SubSeq(s, 1, k-1)>> \o Split(SubSeq(s, k+1, Len(s)), sep)

RECURSIVE Join(_, _)
\* sep.join(parts)
Join(parts, sep) ==
    IF parts = <<>> THEN <<>>
    ELSE IF Len(parts) = 1 THEN parts[1]
    ELSE parts[1] \o <<sep>> \o Join(Tail(parts), sep)

Whitespace == {" ", "\n"}

RECURSIVE LStrip(_)
LStrip(s) ==
    IF s # <<>> /\ Head(s) \in Whitespace THEN LStrip(Tail(s)) ELSE s

RECURSIVE RStrip(_)
RStrip(s) ==
    IF s # <<>> /\ s[Len(s)] \in Whitespace
    THEN RStrip(SubSeq(s, 1, Len(s) - 1)) ELSE s

\* str.strip()
Strip(s) == RStrip(LStrip(s))

Digit(d) == <<"0", "1", "2", "3", "4", "5", "6", "7", "8", "9">>[d + 1]

RECURSIVE Decimal(_)
\* '%d' % i for i >= 0
Decimal(i) ==
    IF i < 10 THEN <<Digit(i)>> ELSE Decimal(i \div 10) \o <<Digit(i % 10)>>

\* '%02d' % i: at least two digits, padded with zeros on the left
Fmt02(i) ==
    LET d == Decimal(i) IN IF Len(d) < 2 THEN <<"0">> \o d ELSE d

\* -------------------------------------------------------------- settings
\* The prefixes global_prefix is called with.
Prefixes == { <<"o", "/">> }

\* The template after_cmd is called with: a command and the two placeholders.
AfterTemplate == <<"post", "%(prefix)s", "%(config_names)s">>

\* The configurations of a call over n configurations, as the caller lists them.
Configs(n) == [k \in 1..n |-> k]

\* Config.name
Name(c) == c

\* _command_line(config)
CommandLine(c) ==
    [exe |-> "m5", outdir |-> <<prefix, Name(c)>>, script |-> "se", args |-> c]

\* _after_cmd_args(configs): the template with prefix and config_names filled in
AfterCmdArgs(configs) ==
    [k \in 1..Len(afterCmd) |->
        IF afterCmd[k] = "%(prefix)s" THEN <<"prefix", prefix>>
        ELSE IF afterCmd[k] = "%(config_names)s"
             THEN <<"names", [m \in 1..Len(configs) |-> Name(configs[m])]>>
             ELSE <<"word", afterCmd[k]>>]

\* _make_dirs(): os.makedirs of the prefix without its last segment; every
\* failure (an empty path, a directory that exists) is swallowed.
MakeDirs(dirs) ==
    LET segs == Split(prefix, "/")
        path == Join(SubSeq(segs, 1, Len(segs) - 1), "/")
    IN  IF path = <<>> \/ path \in dirs THEN dirs ELSE dirs \cup {path}

\* ------------------------------------------------------ process wrapper
\* _signal_names.get(n, '???')
SignalName(n) == IF n = 9 THEN "SIGKILL" ELSE "???"

\* The exit codes a launched command can end with; the stand-in `true` of
\* dummy_Popen always exits 0.
ExitCodes(cmd) == IF cmd = "true" THEN {0} ELSE {0, 3, -9}

\* A process that has not been launched.
NoProc ==
    [cmd |-> "none", args |-> <<>>, label |-> <<>>, hasDir |-> FALSE,
     reporting |-> FALSE, state |-> "none", code |-> 0,
     waited |-> FALSE, returncode |-> 0]

\* What calling the global name Popen_reporting(args, config_name=...,
\* config_dir=...) creates: a Popen_reporting of the command, or, once
\* dry_run() has rebound the name to dummy_Popen, a plain Popen of `true`.
NewProc(cmd, args, label, hasDir) ==
    IF popen = "dummy_Popen"
    THEN [cmd |-> "true", args |-> <<>>, label |-> label, hasDir |-> FALSE,
          reporting |-> FALSE, state |-> "running", code |-> 0,
          waited |-> FALSE, returncode |-> 0]
    ELSE [cmd |-> cmd, args |-> args, label |-> label, hasDir |-> hasDir,
          reporting |-> TRUE, state |-> "running", code |-> 0,
          waited |-> FALSE, returncode |-> 0]

\* dummy_Popen prints the command line it was asked to run.
Printed(args) ==
    IF popen = "dummy_Popen" THEN <<[kind |-> "cmd", text |-> args]>> ELSE <<>>

\* Mutant of Report: only positive exit codes are reported (`returncode > 0`).
ReportErrorsOnly(p) ==
    IF ~p.reporting \/ p.code <= 0 THEN <<>>
    ELSE <<[label |-> p.label, kind |-> "error", name |-> "", n |-> p.code,
            errors |-> ""],
           [label |-> p.label, kind |-> "last", name |-> "", n |-> 0,
            errors |-> IF p.hasDir THEN "tail" ELSE ""]>>

\* Popen_reporting.wait on an exited process: the lines written to stderr.
\* A plain Popen (dry run) writes nothing.  The trailing log is the output
\* of `tail -n6 <config_dir>/simerr`, or '' without a config_dir.
Report(p) ==
    IF ~p.reporting \/ p.code = 0 THEN <<>>
    ELSE LET errors == IF p.hasDir THEN "tail" ELSE ""
             first == IF p.code < 0
                      THEN [label |-> p.label, kind |-> "signal",
                            name |-> SignalName(-p.code), n |-> -p.code,
                            errors |-> ""]
                      ELSE [label |-> p.label, kind |-> "error",
                            name |-> "", n |-> p.code, errors |-> ""]
         IN  <<first, [label |-> p.label, kind |-> "last", name |-> "",
                       n |-> 0, errors |-> errors]>>

\* Mutant of Wait: the exit code is not handed back (a bare `return`).
WaitReturnsNothing(p) ==
    [p EXCEPT !.waited = TRUE, !.returncode = 0]

\* wait() on an exited process, a Popen_reporting (lines 62-77) or a plain
\* Popen: the process with the value that wait returned
Wait(p) ==
    [p EXCEPT !.waited = TRUE, !.returncode = p.code]

\* _run_config(config): the process it launches
RunConfigProc(c) == NewProc("m5", CommandLine(c), <<"config", Name(c)>>, TRUE)

\* The after-command's process (run_util.py lines 213 and 234)
AfterProc(configs) ==
    NewProc("after", AfterCmdArgs(configs), <<"after command", 0>>, FALSE)

\* A launch can fail to start (OSError from Popen: no such executable); the
\* stand-in `true` is taken to start always.
CanFailToStart == popen = "Popen_reporting"

\* ------------------------------------------------------------------ Init
NoEntry == [stats |-> [ran |-> 0, submitted |-> 0, jobs |-> 0], dirs |-> {}]

NoCall == [op |-> "none", configs |-> <<>>, lazy |-> FALSE, taken |-> 0,
           max_parallel |-> 0, per_job |-> 0, save_pbs |-> FALSE,
           entry |-> NoEntry, after_launches |-> 0]

NoGen == [started |-> FALSE, items |-> <<>>, max_len |-> 0, nitems |-> 0,
          nlists |-> 0, nlong |-> 0, i |-> 0]

NoJob == [i |-> 0, group |-> <<>>, pbs |-> <<>>, after_pbs |-> <<>>,
          job_name |-> <<>>, job_id |-> <<>>]

Init ==
    /\ prefix = <<>>
    /\ afterCmd = "None"
    /\ dryRunMode = FALSE
    /\ popen = "Popen_reporting"
    /\ argvNoDry \in BOOLEAN
    /\ stats = [ran |-> 0, submitted |-> 0, jobs |-> 0]
    /\ pc = "idle"
    /\ call = NoCall
    /\ idx = 0
    /\ sem = 0
    /\ thr = <<>>
    /\ procs = [k \in {} |-> NoProc]
    /\ handles = <<>>
    /\ gen = NoGen
    /\ job = NoJob
    /\ qsubs = <<>>
    /\ fs = [dirs |-> {}, files |-> {}]
    /\ out = <<>>
    /\ err = [k \in {} |-> <<>>]
    /\ work = [run |-> 0, sub |-> 0, calls |-> 0]
    /\ groups = <<>>
    /\ config_lists = <<>>
    /\ frames = <<>>
    /\ passed = <<>>
    /\ product = <<>>

\* --------------------------------------------------------------- setters
\* Mutant of DryRun: '--no-dry' on the command line is not looked at.
DryRunIgnoresNoDry ==
    /\ pc = "idle"
    /\ popen' = "dummy_Popen" /\ dryRunMode' = TRUE
    /\ UNCHANGED <<prefix, afterCmd, argvNoDry, stats, pc, call, idx, sem, thr,
                   procs, handles, gen, job, qsubs, fs, out, err, work, groups,
                   crossState>>

\* dry_run()
DryRun ==
    /\ pc = "idle"
    /\ IF argvNoDry
       THEN UNCHANGED <<popen, dryRunMode>>
       ELSE popen' = "dummy_Popen" /\ dryRunMode' = TRUE
    /\ UNCHANGED <<prefix, afterCmd, argvNoDry, stats, pc, call, idx, sem, thr,
                   procs, handles, gen, job, qsubs, fs, out, err, work, groups,
                   crossState>>

\* global_prefix(prefix)
GlobalPrefix(p) ==
    /\ pc = "idle"
    /\ prefix' = p
    /\ UNCHANGED <<afterCmd, dryRunMode, popen, argvNoDry, stats, pc, call, idx,
                   sem, thr, procs, handles, gen, job, qsubs, fs, out, err, work, groups,
                   crossState>>

\* after_cmd(*command)
AfterCmd ==
    /\ pc = "idle"
    /\ afterCmd' = AfterTemplate
    /\ UNCHANGED <<prefix, dryRunMode, popen, argvNoDry, stats, pc, call, idx,
                   sem, thr, procs, handles, gen, job, qsubs, fs, out, err, work, groups,
                   crossState>>

\* ------------------------------------------------------------ run_configs
\* What a call over n configurations takes from MaxWork.
Cost(n) == IF n = 0 THEN 1 ELSE n

\* The calls the bound MaxWork still allows.
Budget(n) == work.calls + Cost(n) <= MaxWork

settings == <<prefix, afterCmd, dryRunMode, popen, argvNoDry>>
submitState == <<gen, job, qsubs>>

\* Mutant of AcquirePc: the drain loop of lines 231-232 is left out.
AcquirePcNoDrain(i, n) == IF i <= n THEN "acquire" ELSE "after"

\* Where the calling thread goes when its loop variable is i: the list
\* comprehension of line 208, then the wait loop of lines 209-211.
AllLaunchPc(i, n) ==
    IF i <= n THEN "all_launch" ELSE IF n > 0 THEN "all_wait" ELSE "after"
AllWaitPc(i, n) == IF i <= n THEN "all_wait" ELSE "after"
\* The admission loop of lines 226-229, then the drain loop of lines 231-232.
AcquirePc(i, n) == IF i <= n THEN "acquire" ELSE "drain"

\* Mutant of SemaphoreInit: the gate admits one process too many.
SemaphoreInitOneMore(P) == P + 1

\* threading.Semaphore(max_parallel): the initial value of `bound`
SemaphoreInit(P) == P

\* bound.acquire() can return: the value is positive
CanAcquire(value) == value > 0

\* next() on the iterator of `for c in configs`: one more item is taken, or
\* none is left (StopIteration ends the loop)
IterNext(c) ==
    [c EXCEPT !.taken = IF @ < Len(c.configs) THEN @ + 1 ELSE @]

\* What iterating over `configs` once more yields: a list starts again at
\* its first item, a generator (the result of cross) only has the items not
\* taken from it yet.
Iterate(c) ==
    IF c.lazy THEN SubSeq(c.configs, c.taken + 1, Len(c.configs)) ELSE c.configs

\* run_configs(configs, max_parallel) is entered, with a list or with a
\* generator of n configurations: the semaphore is made, _make_dirs() runs
\* and the loop over configs takes its first item (lines 218-226, 207-208).
RunConfigs(n, P, lazy) ==
    /\ pc = "idle"
    /\ Budget(n)
    /\ call' = IterNext([op |-> "run", configs |-> Configs(n), lazy |-> lazy,
                         taken |-> 0, max_parallel |-> P,
                         per_job |-> 0, save_pbs |-> FALSE,
                         entry |-> [stats |-> stats, dirs |-> fs.dirs],
                         after_launches |-> 0])
    /\ work' = [work EXCEPT !.run = @ + n, !.calls = @ + Cost(n)]
    /\ fs' = [fs EXCEPT !.dirs = MakeDirs(@)]
    /\ procs' = [k \in 0..n |-> NoProc]
    /\ err' = [k \in 0..n |-> <<>>]
    /\ handles' = <<>>
    /\ idx' = 1
    /\ IF P = 0
       THEN sem' = 0 /\ thr' = <<>> /\ pc' = AllLaunchPc(1, n)
       ELSE /\ sem' = SemaphoreInit(P)
            /\ thr' = [k \in 1..n |-> "none"]
            /\ pc' = AcquirePc(1, n)
    /\ UNCHANGED <<settings, stats, submitState, out, groups,
                   crossState>>

\* Mutant of AllLaunch: a run is counted when its process is launched.
AllLaunchCounts ==
    /\ pc = "all_launch"
    /\ procs' = [procs EXCEPT ![idx] = RunConfigProc(call.configs[idx])]
    /\ out' = out \o Printed(CommandLine(call.configs[idx]))
    /\ handles' = Append(handles, idx)
    /\ idx' = IF idx < Len(call.configs) THEN idx + 1 ELSE 1
    /\ pc' = AllLaunchPc(idx + 1, Len(call.configs))
    /\ call' = IterNext(call)
    /\ stats' = [stats EXCEPT !.ran = @ + 1]
    /\ UNCHANGED <<settings, sem, thr, submitState, fs, err, work, groups,
                   crossState>>

\* line 208: processes = [_run_config(c) for c in configs], one launch
AllLaunch ==
    /\ pc = "all_launch"
    /\ procs' = [procs EXCEPT ![idx] = RunConfigProc(call.configs[idx])]
    /\ out' = out \o Printed(CommandLine(call.configs[idx]))
    /\ handles' = Append(handles, idx)
    /\ idx' = IF idx < Len(call.configs) THEN idx + 1 ELSE 1
    /\ pc' = AllLaunchPc(idx + 1, Len(call.configs))
    /\ call' = IterNext(call)
    /\ UNCHANGED <<settings, stats, sem, thr, submitState, fs, err, work, groups,
                   crossState>>

\* line 208, a launch that raises: the exception leaves run_configs
AllLaunchFails ==
    /\ pc = "all_launch"
    /\ CanFailToStart
    /\ pc' = "raised"
    /\ UNCHANGED <<settings, stats, call, idx, sem, thr, procs, handles,
                   submitState, fs, out, err, work, groups,
                   crossState>>

\* Mutant of AllWait: only the runs that succeeded are counted.
AllWaitCountsSuccesses ==
    /\ pc = "all_wait"
    /\ procs[handles[idx]].state = "exited"
    /\ err' = [err EXCEPT ![handles[idx]] = @ \o Report(procs[handles[idx]])]
    /\ stats' = [stats EXCEPT
                    !.ran = IF procs[handles[idx]].code = 0 THEN @ + 1 ELSE @]
    /\ procs' = [procs EXCEPT ![handles[idx]] = Wait(@)]
    /\ idx' = idx + 1
    /\ pc' = AllWaitPc(idx + 1, Len(call.configs))
    /\ UNCHANGED <<settings, call, sem, thr, handles, submitState, fs,
                   out, work, groups,
                   crossState>>

\* lines 209-211: p.wait() returns for the next process, then stats.ran += 1
AllWait ==
    /\ pc = "all_wait"
    /\ procs[handles[idx]].state = "exited"
    /\ err' = [err EXCEPT ![handles[idx]] = @ \o Report(procs[handles[idx]])]
    /\ stats' = [stats EXCEPT !.ran = @ + 1]
    /\ procs' = [procs EXCEPT ![handles[idx]] = Wait(@)]
    /\ idx' = idx + 1
    /\ pc' = AllWaitPc(idx + 1, Len(call.configs))
    /\ UNCHANGED <<settings, call, sem, thr, handles, submitState, fs,
                   out, work, groups,
                   crossState>>

\* line 227: bound.acquire() in the admission loop
Acquire ==
    /\ pc = "acquire"
    /\ CanAcquire(sem)
    /\ sem' = sem - 1
    /\ pc' = "start"
    /\ UNCHANGED <<settings, stats, call, idx, thr, procs, handles, submitState,
                   fs, out, err, work, groups,
                   crossState>>

\* line 228: threading.Thread(target=run, args=(c,)).start()
Start ==
    /\ pc = "start"
    /\ thr' = [thr EXCEPT ![idx] = "started"]
    /\ pc' = "count"
    /\ UNCHANGED <<settings, stats, call, idx, sem, procs, handles, submitState,
                   fs, out, err, work, groups,
                   crossState>>

\* line 229: stats.ran += 1, and the loop of line 226 takes its next item
Count ==
    /\ pc = "count"
    /\ stats' = [stats EXCEPT !.ran = @ + 1]
    /\ idx' = IF idx < Len(call.configs) THEN idx + 1 ELSE 1
    /\ pc' = AcquirePc(idx + 1, Len(call.configs))
    /\ call' = IterNext(call)
    /\ UNCHANGED <<settings, sem, thr, procs, handles, submitState, fs,
                   out, err, work, groups,
                   crossState>>

\* lines 231-232: one bound.acquire() of the max_parallel that drain the bound
Drain ==
    /\ pc = "drain"
    /\ CanAcquire(sem)
    /\ sem' = sem - 1
    /\ idx' = idx + 1
    /\ pc' = IF idx < call.max_parallel THEN "drain" ELSE "after"
    /\ UNCHANGED <<settings, stats, call, thr, procs, handles, submitState, fs,
                   out, err, work, groups,
                   crossState>>

\* line 222 in a worker: _run_config(config) launches the process
ThreadLaunch(k) ==
    /\ k \in DOMAIN thr
    /\ thr[k] = "started"
    /\ procs' = [procs EXCEPT ![k] = RunConfigProc(call.configs[k])]
    /\ out' = out \o Printed(CommandLine(call.configs[k]))
    /\ thr' = [thr EXCEPT ![k] = "waiting"]
    /\ UNCHANGED <<settings, stats, pc, call, idx, sem, handles, submitState,
                   fs, err, work, groups,
                   crossState>>

\* line 222 in a worker, a launch that raises: the thread ends with the
\* exception, before bound.release()
ThreadLaunchFails(k) ==
    /\ k \in DOMAIN thr
    /\ thr[k] = "started"
    /\ CanFailToStart
    /\ thr' = [thr EXCEPT ![k] = "dead"]
    /\ UNCHANGED <<settings, stats, pc, call, idx, sem, procs, handles,
                   submitState, fs, out, err, work, groups,
                   crossState>>

\* Mutant of ThreadFinish: the worker counts the run when it completes.
ThreadFinishCounts(k) ==
    /\ k \in DOMAIN thr
    /\ thr[k] = "waiting"
    /\ procs[k].state = "exited"
    /\ err' = [err EXCEPT ![k] = @ \o Report(procs[k])]
    /\ procs' = [procs EXCEPT ![k] = Wait(@)]
    /\ sem' = sem + 1
    /\ stats' = [stats EXCEPT !.ran = @ + 1]
    /\ thr' = [thr EXCEPT ![k] = "done"]
    /\ UNCHANGED <<settings, pc, call, idx, handles, submitState,
                   fs, out, work, groups,
                   crossState>>

\* lines 222-223 in a worker: .wait() returns, with its report, and the
\* worker releases its unit: bound.release()
ThreadFinish(k) ==
    /\ k \in DOMAIN thr
    /\ thr[k] = "waiting"
    /\ procs[k].state = "exited"
    /\ err' = [err EXCEPT ![k] = @ \o Report(procs[k])]
    /\ procs' = [procs EXCEPT ![k] = Wait(@)]
    /\ sem' = sem + 1
    /\ thr' = [thr EXCEPT ![k] = "done"]
    /\ UNCHANGED <<settings, stats, pc, call, idx, handles, submitState,
                   fs, out, work, groups,
                   crossState>>

\* An external process exits with one of its exit codes.
ProcExit(h, code) ==
    /\ h \in DOMAIN procs
    /\ procs[h].state = "running"
    /\ code \in ExitCodes(procs[h].cmd)
    /\ procs' = [procs EXCEPT ![h].state = "exited", ![h].code = code]
    /\ UNCHANGED <<settings, stats, pc, call, idx, sem, thr, handles,
                   submitState, fs, out, err, work, groups,
                   crossState>>

\* lines 212/233 with no after-command: the call returns
RunReturn ==
    /\ pc = "after"
    /\ afterCmd = "None"
    /\ pc' = "returned"
    /\ UNCHANGED <<settings, stats, call, idx, sem, thr, procs, handles,
                   submitState, fs, out, err, work, groups,
                   crossState>>

\* lines 213/234: the after-command is rendered, _after_cmd_args iterating
\* over `configs` once more, and launched
AfterLaunch ==
    /\ pc = "after"
    /\ afterCmd # "None"
    /\ procs' = [procs EXCEPT ![0] = AfterProc(Iterate(call))]
    /\ call' = [call EXCEPT !.after_launches = @ + 1]
    /\ out' = out \o Printed(AfterCmdArgs(Iterate(call)))
    /\ pc' = "after_wait"
    /\ UNCHANGED <<settings, stats, idx, sem, thr, handles, submitState, fs,
                   err, work, groups,
                   crossState>>

\* lines 213/234, a launch that raises
AfterLaunchFails ==
    /\ pc = "after"
    /\ afterCmd # "None"
    /\ CanFailToStart
    /\ pc' = "raised"
    /\ UNCHANGED <<settings, stats, call, idx, sem, thr, procs, handles,
                   submitState, fs, out, err, work, groups,
                   crossState>>

\* lines 213/234: .wait() on the after-command returns and the call returns
AfterWait ==
    /\ pc = "after_wait"
    /\ procs[0].state = "exited"
    /\ err' = [err EXCEPT ![0] = @ \o Report(procs[0])]
    /\ procs' = [procs EXCEPT ![0] = Wait(@)]
    /\ pc' = "returned"
    /\ UNCHANGED <<settings, stats, call, idx, sem, thr, handles,
                   submitState, fs, out, work, groups,
                   crossState>>

\* The caller has the call's result: its locals are gone, its processes are
\* reaped, and what it wrote belongs to the past.
CallEnds ==
    /\ pc = "returned"
    /\ pc' = "idle"
    /\ call' = NoCall /\ idx' = 0 /\ sem' = 0 /\ thr' = <<>>
    /\ procs' = [k \in {} |-> NoProc] /\ handles' = <<>>
    /\ gen' = NoGen /\ job' = NoJob /\ qsubs' = <<>>
    /\ fs' = [fs EXCEPT !.files = {}]
    /\ out' = <<>> /\ err' = [k \in {} |-> <<>>]
    /\ UNCHANGED <<settings, stats, work, groups,
                   crossState>>

\* -------------------------------------------------------- _divide_equally
\* Python's a // b for b # 0: the quotient rounded towards minus infinity
PyFloorDiv(a, b) ==
    IF b > 0 THEN a \div b ELSE (0 - a) \div (0 - b)

\* Python's a % b for b # 0: the remainder has the sign of b
PyMod(a, b) == a - b * PyFloorDiv(a, b)

\* _divide_equally(items, max_len) called: a generator that has not run yet
GenNew(items, max_len) ==
    [started |-> FALSE, items |-> items, max_len |-> max_len, nitems |-> 0,
     nlists |-> 0, nlong |-> 0, i |-> 0]

\* line 245: nlists = (nitems + max_len - 1) // max_len
NLists(nitems, max_len) == PyFloorDiv(nitems + max_len - 1, max_len)

\* lines 245-246 divide by zero (ZeroDivisionError) on the first resumption
GenRaises(g) ==
    /\ ~g.started
    /\ IF g.max_len = 0 THEN TRUE ELSE NLists(Len(g.items), g.max_len) = 0

\* lines 243-246, run on the first resumption
GenStart(g) ==
    LET n == Len(g.items)
        nl == NLists(n, g.max_len)
    IN  [g EXCEPT !.started = TRUE, !.nitems = n, !.nlists = nl,
                  !.nlong = PyMod(n, nl)]

GenRunning(g) == IF g.started THEN g ELSE GenStart(g)

\* line 247: the loop `for i in xrange(nlists)` has another round
GenHasNext(g) == GenRunning(g).i < GenRunning(g).nlists

\* Mutant of GroupLen: every group is filled up to max_len.
GroupLenGreedy(g) == g.max_len

\* lines 248-251: the length of the next group
GroupLen(g) ==
    PyFloorDiv(g.nitems, g.nlists) + (IF g.nlong # 0 THEN 1 ELSE 0)

\* Where a slice bound k falls in a list of length len: a negative bound
\* counts from the end, and bounds outside the list are clamped.
SliceIndex(k, len) ==
    IF k < 0 THEN (IF len + k < 0 THEN 0 ELSE len + k)
    ELSE IF k > len THEN len ELSE k

\* items[:k]
Take(items, k) == SubSeq(items, 1, SliceIndex(k, Len(items)))

\* items[k:]
Drop(items, k) == SubSeq(items, SliceIndex(k, Len(items)) + 1, Len(items))

\* line 252-253: the group the generator yields when it is resumed
GenYield(g) == Take(GenRunning(g).items, GroupLen(GenRunning(g)))

\* Mutant of GenAfterYield: the yielded items are not taken off `items`.
GenAfterYieldKeepsItems(g) ==
    LET r == GenRunning(g)
    IN  [r EXCEPT !.nlong = IF r.nlong # 0 THEN r.nlong - 1 ELSE 0,
                  !.i = r.i + 1]

\* lines 249-252: the generator's state after that yield
GenAfterYield(g) ==
    LET r == GenRunning(g)
    IN  [r EXCEPT !.items = Drop(r.items, GroupLen(r)),
                  !.nlong = IF r.nlong # 0 THEN r.nlong - 1 ELSE 0,
                  !.i = r.i + 1]

\* --------------------------------------------------------- submit_configs
\* The job identifiers the queue command prints: a number and a newline, a
\* padded number, or nothing at all when the submission failed.
JobIds == { <<"7", "\n">>, <<" ", "8", "\n">>, <<>> }

\* The exit code of the queue command: 0 when it printed an identifier,
\* non-zero when the submission failed.  submit_configs never reads it.
QsubCode(id) == IF id = <<>> THEN 1 ELSE 0

\* The `name` argument of submit_configs
JobBase == <<"n">>

\* The per_job arguments of submit_configs
PerJobs == (0 - 1)..MaxPerJob

\* line 270: after_in_new_job = True
AfterInNewJob == TRUE

\* Mutant of MainScript: the script does not wait for its commands.
MainScriptNoWait(group) ==
    <<[kind |-> "header"]>>
    \o [k \in 1..Len(group) |->
           [kind |-> "run", conf |-> group[k],
            env |-> <<Name(group[k]), <<prefix, Name(group[k])>>>>,
            cmd |-> CommandLine(group[k]), background |-> TRUE]]
    \o <<[kind |-> "blank"]>>

\* lines 265-267: the main script of a group: the header, one backgrounded
\* line per configuration, a blank line and `wait`
MainScript(group) ==
    <<[kind |-> "header"]>>
    \o [k \in 1..Len(group) |->
           [kind |-> "run", conf |-> group[k],
            env |-> <<Name(group[k]), <<prefix, Name(group[k])>>>>,
            cmd |-> CommandLine(group[k]), background |-> TRUE]]
    \o <<[kind |-> "blank"], [kind |-> "wait"]>>

\* line 273: the after-command's line, rendered for the group
AfterCmdLine(group) == [kind |-> "after", args |-> AfterCmdArgs(group)]

\* lines 265-278: pbs
Pbs(group) ==
    IF afterCmd # "None" /\ ~AfterInNewJob
    THEN MainScript(group) \o <<AfterCmdLine(group)>>
    ELSE MainScript(group)

\* lines 271-276: after_pbs; <<>> stands for None
AfterPbs(group) ==
    IF afterCmd # "None" /\ AfterInNewJob
    THEN <<[kind |-> "header"], [kind |-> "blank"], AfterCmdLine(group)>>
    ELSE <<>>

\* Mutant of JobName: the index is not padded ('.%d').
JobNameUnpadded(i) == JobBase \o <<".">> \o Decimal(i)

\* line 280: job_name = name + '.%02d' % i
JobName(i) == JobBase \o <<".">> \o Fmt02(i)

\* line 303: the name of the after-job
AfterJobName(jobName) == jobName \o <<"a">>

\* Mutant of Depend: the identifier is used as the queue command printed it.
DependUntrimmed(jobId) == <<"afterany:">> \o jobId

\* line 303: 'depend=afterany:' + job_id.strip()
Depend(jobId) == <<"afterany:">> \o Strip(jobId)

\* open(name, 'w'); write(text): the file is created or overwritten
WriteFile(files, name, text) ==
    {f \in files : f.name # name} \cup {[name |-> name, text |-> text]}

\* lines 288-295: the files the group's scripts are saved to
Persist(files, j) ==
    LET main == WriteFile(files, j.job_name \o <<".pbs">>, j.pbs)
    IN  IF j.after_pbs # <<>>
        THEN WriteFile(main, j.job_name \o <<"a.pbs">>, j.after_pbs)
        ELSE main

\* line 297: the main submission: qsub -N <job_name> -, the script on stdin;
\* stdout is what the queue command answers (line 299)
MainQsub(j) ==
    [kind |-> "main", name |-> j.job_name, depend |-> <<>>, stdin |-> j.pbs,
     group |-> j.group, stdout |-> <<>>, code |-> 0]

\* line 303: the after submission: qsub -W depend=... -N <job_name>a -
\* (its output is not captured)
AfterQsub(j) ==
    [kind |-> "after", name |-> AfterJobName(j.job_name),
     depend |-> Depend(j.job_id), stdin |-> j.after_pbs, group |-> j.group,
     stdout |-> <<>>, code |-> 0]

\* submit_configs(configs, name, per_job, save_pbs) is entered: _make_dirs()
\* runs and the generator is created (lines 263-264).  _divide_equally copies
\* `configs` into a list before anything else (line 243), so a list and a
\* generator of the same configurations behave alike here.
SubmitConfigs(n, perJob, savePbs) ==
    /\ pc = "idle"
    /\ Budget(n)
    /\ call' = [op |-> "submit", configs |-> Configs(n), lazy |-> FALSE,
                taken |-> n, max_parallel |-> 0,
                per_job |-> perJob, save_pbs |-> savePbs,
                entry |-> [stats |-> stats, dirs |-> fs.dirs],
                after_launches |-> 0]
    /\ work' = [work EXCEPT !.sub = @ + n, !.calls = @ + Cost(n)]
    /\ fs' = [fs EXCEPT !.dirs = MakeDirs(@)]
    /\ gen' = GenNew(Configs(n), perJob)
    /\ idx' = 0
    /\ pc' = "sub_next"
    /\ UNCHANGED <<settings, stats, sem, thr, procs, handles, job, qsubs, out,
                   err, groups,
                   crossState>>

\* line 264: the generator raises on its first resumption
SubRaises ==
    /\ pc = "sub_next"
    /\ GenRaises(gen)
    /\ pc' = "raised"
    /\ UNCHANGED <<settings, stats, call, idx, sem, thr, procs, handles, gen,
                   job, qsubs, fs, out, err, work, groups,
                   crossState>>

\* line 264: enumerate yields the next (i, job)
SubNext ==
    /\ pc = "sub_next"
    /\ ~GenRaises(gen)
    /\ GenHasNext(gen)
    /\ job' = [NoJob EXCEPT !.i = idx, !.group = GenYield(gen)]
    /\ gen' = GenAfterYield(gen)
    /\ idx' = idx + 1
    /\ pc' = "sub_render"
    /\ UNCHANGED <<settings, stats, call, sem, thr, procs, handles, qsubs, fs,
                   out, err, work, groups,
                   crossState>>

\* line 264: the generator is exhausted and submit_configs returns
SubReturn ==
    /\ pc = "sub_next"
    /\ ~GenRaises(gen)
    /\ ~GenHasNext(gen)
    /\ gen' = GenRunning(gen)
    /\ pc' = "returned"
    /\ UNCHANGED <<settings, stats, call, idx, sem, thr, procs, handles, job,
                   qsubs, fs, out, err, work, groups,
                   crossState>>

\* lines 265-286: the scripts are rendered, count_subs counts every
\* configuration of the group, the job is named and counted; in dry-run mode
\* the name and the script are printed and the loop continues
SubRender ==
    /\ pc = "sub_render"
    /\ job' = [job EXCEPT !.pbs = Pbs(job.group),
                          !.after_pbs = AfterPbs(job.group),
                          !.job_name = JobName(job.i)]
    /\ stats' = [stats EXCEPT !.submitted = @ + Len(job.group),
                              !.jobs = @ + 1]
    /\ IF dryRunMode
       THEN /\ out' = out \o <<[kind |-> "job", text |-> JobName(job.i)],
                              [kind |-> "script", text |-> Pbs(job.group)]>>
            /\ pc' = "sub_next"
       ELSE /\ out' = out
            /\ pc' = IF call.save_pbs THEN "sub_persist" ELSE "sub_main"
    /\ UNCHANGED <<settings, call, idx, sem, thr, procs, handles, gen, qsubs,
                   fs, err, work, groups,
                   crossState>>

\* lines 288-295: the scripts are saved
SubPersist ==
    /\ pc = "sub_persist"
    /\ fs' = [fs EXCEPT !.files = Persist(@, job)]
    /\ pc' = "sub_main"
    /\ UNCHANGED <<settings, stats, call, idx, sem, thr, procs, handles, gen,
                   job, qsubs, out, err, work, groups,
                   crossState>>

\* Mutant of AfterMainPc: no after-job without a job identifier.
AfterMainPcValidated(j, id) ==
    IF j.after_pbs # <<>> /\ Strip(id) # <<>> THEN "sub_after" ELSE "sub_next"

\* line 302: `if after_pbs:`, whatever the main submission answered
AfterMainPc(j, id) == IF j.after_pbs # <<>> THEN "sub_after" ELSE "sub_next"

\* lines 297-300: the main script is submitted; the queue command prints
\* the job identifier, which is printed
SubMain(id) ==
    /\ pc = "sub_main"
    /\ qsubs' = Append(qsubs, [MainQsub(job) EXCEPT !.stdout = id,
                                                    !.code = QsubCode(id)])
    /\ job' = [job EXCEPT !.job_id = id]
    /\ out' = Append(out, [kind |-> "job_id", text |-> id])
    /\ pc' = AfterMainPc(job, id)
    /\ UNCHANGED <<settings, stats, call, idx, sem, thr, procs, handles, gen,
                   fs, err, work, groups,
                   crossState>>

\* lines 302-305: the after-script is submitted, depending on the main job
SubAfter ==
    /\ pc = "sub_after"
    /\ qsubs' = Append(qsubs, AfterQsub(job))
    /\ pc' = "sub_next"
    /\ UNCHANGED <<settings, stats, call, idx, sem, thr, procs, handles, gen,
                   job, fs, out, err, work, groups,
                   crossState>>

\* ------------------------------------------------------------------ Spec
Next ==
    \/ DryRun
    \/ AfterCmd
    \/ \E p \in Prefixes : GlobalPrefix(p)
    \/ \E n \in 0..MaxWork, P \in 0..MaxParallel : RunConfigs(n, P, FALSE)
    \/ AllLaunch
    \/ AllLaunchFails
    \/ AllWait
    \/ Acquire
    \/ Start
    \/ Count
    \/ Drain
    \/ \E k \in 1..MaxWork : ThreadLaunch(k)
    \/ \E k \in 1..MaxWork : ThreadLaunchFails(k)
    \/ \E k \in 1..MaxWork : ThreadFinish(k)
    \/ \E h \in 0..MaxWork, code \in {0, 3, 0 - 9} : ProcExit(h, code)
    \/ RunReturn
    \/ AfterLaunch
    \/ AfterLaunchFails
    \/ AfterWait
    \/ CallEnds
    \/ \E n \in 0..MaxWork, pj \in PerJobs, sv \in BOOLEAN :
          SubmitConfigs(n, pj, sv)
    \/ SubRaises
    \/ SubNext
    \/ SubReturn
    \/ SubRender
    \/ SubPersist
    \/ \E id \in JobIds : SubMain(id)
    \/ SubAfter

Spec == Init /\ [][Next]_vars

\* The same program with callers that also hand run_configs what cross
\* returns, a generator, instead of a list.
NextLazy ==
    \/ Next
    \/ \E n \in 0..MaxWork, P \in 0..MaxParallel : RunConfigs(n, P, TRUE)

SpecLazy == Init /\ [][NextLazy]_vars

\* ------------------------------------------- the partitioner on its own
\* list(_divide_equally(items, max_len)), as in the doctest of lines 240-241:
\* the items are 1..n, max_len is any of MaxLens.
MaxLens == (0 - 1)..MaxLen

InitDivide ==
    /\ prefix = <<>>
    /\ afterCmd = "None"
    /\ dryRunMode = FALSE
    /\ popen = "Popen_reporting"
    /\ argvNoDry = FALSE
    /\ stats = [ran |-> 0, submitted |-> 0, jobs |-> 0]
    /\ pc = "divide"
    /\ \E n \in 0..MaxItems, m \in MaxLens :
          /\ call = [NoCall EXCEPT !.op = "divide", !.configs = Configs(n),
                                    !.per_job = m]
          /\ gen = GenNew(Configs(n), m)
    /\ idx = 0
    /\ sem = 0
    /\ thr = <<>>
    /\ procs = [k \in {} |-> NoProc]
    /\ handles = <<>>
    /\ job = NoJob
    /\ qsubs = <<>>
    /\ fs = [dirs |-> {}, files |-> {}]
    /\ out = <<>>
    /\ err = [k \in {} |-> <<>>]
    /\ work = [run |-> 0, sub |-> 0, calls |-> 0]
    /\ groups = <<>>
    /\ config_lists = <<>>
    /\ frames = <<>>
    /\ passed = <<>>
    /\ product = <<>>

notDivide == <<settings, stats, call, idx, sem, thr, procs, handles, job, qsubs,
               fs, out, err, work, crossState>>

\* list() resumes the generator, which raises ZeroDivisionError
DivideRaises ==
    /\ pc = "divide"
    /\ GenRaises(gen)
    /\ pc' = "raised"
    /\ UNCHANGED <<notDivide, gen, groups>>

\* list() resumes the generator, which yields the next group
DivideYields ==
    /\ pc = "divide"
    /\ ~GenRaises(gen)
    /\ GenHasNext(gen)
    /\ groups' = Append(groups, GenYield(gen))
    /\ gen' = GenAfterYield(gen)
    /\ UNCHANGED <<notDivide, pc>>

\* list() resumes the generator, which is exhausted: the list is complete
DivideStops ==
    /\ pc = "divide"
    /\ ~GenRaises(gen)
    /\ ~GenHasNext(gen)
    /\ gen' = GenRunning(gen)
    /\ pc' = "divided"
    /\ UNCHANGED <<notDivide, groups>>

NextDivide == DivideRaises \/ DivideYields \/ DivideStops

SpecDivide == InitDivide /\ [][NextDivide]_vars

\* ------------------------------------------------------------------ cross
\* Largest number of arguments of cross and longest list among them.
MaxLists == 3
MaxList == 3

\* Config(name, args): the name is a sequence of words
Config(name, args) == [name |-> name, args |-> args]

\* Mutant of ConfigAdd: the names are joined without the '-'.
ConfigAddNoDash(c, other) ==
    Config(c.name \o other.name, c.args \o other.args)

\* Config.__add__
ConfigAdd(c, other) ==
    Config(c.name \o <<"-">> \o other.name, c.args \o other.args)

\* The i-th configuration of the p-th argument: they all differ in name, and
\* have no, one, two... arguments.
Element(p, i) == Config(<< <<p, i>> >>, [m \in 1..(i - 1) |-> <<p, i, m>>])

\* The values an argument at position p can have: a list of up to MaxList
\* configurations, or a bare Config.
Arguments(p) ==
    {[kind |-> "list", items |-> [i \in 1..n |-> Element(p, i)]] : n \in 0..MaxList}
    \cup {[kind |-> "Config", config |-> Element(p, 0)]}

\* lines 186-188: confs, a bare Config standing for the list of itself
Confs(arg) == IF arg.kind = "Config" THEN <<arg.config>> ELSE arg.items

\* The frame of a generator that has just started: its loop over `confs`
\* has taken no item yet, c is unbound
NewFrame == [taken |-> 0, c |-> Config(<<>>, <<>>)]

\* A generator object that has not run yet, and the generators passed to a
\* call with these arguments before any has run (an entry per argument; only
\* those of arguments that are generators ever change)
NewGenerator == [frames |-> <<>>, done |-> FALSE]
NewPassed(lists) == [p \in 1..Len(lists) |-> NewGenerator]

\* The outcome of resuming a generator: an item, or StopIteration; with it
\* the frames and the generators passed as arguments, as the step left them
Yield(value, fr, h) ==
    [kind |-> "yield", value |-> value, frames |-> fr, passed |-> h]
Stop(fr, h) ==
    [kind |-> "stop", value |-> Config(<<>>, <<>>), frames |-> fr, passed |-> h]

RECURSIVE Resume(_, _, _, _)
RECURSIVE Advance(_, _, _, _)
\* lines 190 and 194: `for c in confs` takes its next item.  From a list
\* (or a bare Config) it is the item after those this loop has taken; from
\* a generator it is whatever next() on that one object gives, whichever
\* loop asks, and nothing once it is exhausted.
Advance(lists, d, f, h) ==
    IF lists[d].kind = "cross"
    THEN IF h[d].done
         THEN [some |-> FALSE, frames |-> f, passed |-> h]
         ELSE LET r == Resume(lists[d].lists, 1, h[d].frames,
                              NewPassed(lists[d].lists))
              IN  IF r.kind = "yield"
                  THEN [some |-> TRUE,
                        frames |-> [f EXCEPT ![d] = [taken |-> @.taken + 1,
                                                     c |-> r.value]],
                        passed |-> [h EXCEPT ![d].frames = r.frames]]
                  ELSE [some |-> FALSE, frames |-> f,
                        passed |-> [h EXCEPT ![d] = [frames |-> <<>>,
                                                     done |-> TRUE]]]
    ELSE LET confs == Confs(lists[d])
         IN  IF f[d].taken < Len(confs)
             THEN [some |-> TRUE,
                   frames |-> [f EXCEPT ![d] = [taken |-> @.taken + 1,
                                                c |-> confs[@.taken + 1]]],
                   passed |-> h]
             ELSE [some |-> FALSE, frames |-> f, passed |-> h]

\* lines 186-195: next() on the generator cross(*lists[d..]), whose frame is
\* fr[d] when it has started; the generators of rest that it iterates over,
\* one after the other, have the frames after it.
Resume(lists, d, fr, h) ==
    LET f == IF Len(fr) < d THEN Append(fr, NewFrame) ELSE fr
    IN  IF d = Len(lists)
        THEN \* lines 194-195
             LET a == Advance(lists, d, f, h)
             IN  IF a.some
                 THEN Yield(a.frames[d].c, a.frames, a.passed)
                 ELSE Stop(SubSeq(f, 1, d - 1), a.passed)
        ELSE \* lines 190-192
             IF Len(f) > d
             THEN LET r == Resume(lists, d + 1, f, h)
                  IN  IF r.kind = "yield"
                      THEN Yield(ConfigAdd(f[d].c, r.value), r.frames, r.passed)
                      ELSE Resume(lists, d, r.frames, r.passed)
             ELSE LET a == Advance(lists, d, f, h)
                  IN  IF a.some
                      THEN LET r == Resume(lists, d + 1, a.frames, a.passed)
                           IN  IF r.kind = "yield"
                               THEN Yield(ConfigAdd(a.frames[d].c, r.value),
                                          r.frames, r.passed)
                               ELSE Resume(lists, d, r.frames, r.passed)
                      ELSE Stop(SubSeq(f, 1, d - 1), a.passed)

\* list(cross(*config_lists)) for up to MaxLists arguments
InitCross ==
    /\ prefix = <<>>
    /\ afterCmd = "None"
    /\ dryRunMode = FALSE
    /\ popen = "Popen_reporting"
    /\ argvNoDry = FALSE
    /\ stats = [ran |-> 0, submitted |-> 0, jobs |-> 0]
    /\ pc = "cross"
    /\ call = [NoCall EXCEPT !.op = "cross"]
    /\ idx = 0
    /\ sem = 0
    /\ thr = <<>>
    /\ procs = [k \in {} |-> NoProc]
    /\ handles = <<>>
    /\ gen = NoGen
    /\ job = NoJob
    /\ qsubs = <<>>
    /\ fs = [dirs |-> {}, files |-> {}]
    /\ out = <<>>
    /\ err = [k \in {} |-> <<>>]
    /\ work = [run |-> 0, sub |-> 0, calls |-> 0]
    /\ groups = <<>>
    /\ \E k \in 0..MaxLists :
          config_lists \in [1..k -> UNION {Arguments(p) : p \in 1..MaxLists}]
    /\ \A p \in 1..Len(config_lists) : config_lists[p] \in Arguments(p)
    /\ frames = <<>>
    /\ passed = NewPassed(config_lists)
    /\ product = <<>>

notCross == <<settings, stats, call, idx, sem, thr, procs, handles, gen, job,
              qsubs, fs, out, err, work, groups, config_lists>>

\* line 186 with no argument: config_lists[0] raises IndexError when list()
\* resumes the generator
CrossRaises ==
    /\ pc = "cross"
    /\ config_lists = <<>>
    /\ pc' = "raised"
    /\ UNCHANGED <<notCross, frames, passed, product>>

\* list() resumes the generator, which yields the next configuration
CrossYields ==
    /\ pc = "cross"
    /\ config_lists # <<>>
    /\ Resume(config_lists, 1, frames, passed).kind = "yield"
    /\ product' = Append(product, Resume(config_lists, 1, frames, passed).value)
    /\ frames' = Resume(config_lists, 1, frames, passed).frames
    /\ passed' = Resume(config_lists, 1, frames, passed).passed
    /\ UNCHANGED <<notCross, pc>>

\* list() resumes the generator, which is exhausted: the list is complete
CrossStops ==
    /\ pc = "cross"
    /\ config_lists # <<>>
    /\ Resume(config_lists, 1, frames, passed).kind = "stop"
    /\ frames' = Resume(config_lists, 1, frames, passed).frames
    /\ passed' = Resume(config_lists, 1, frames, passed).passed
    /\ pc' = "crossed"
    /\ UNCHANGED <<notCross, product>>

NextCross == CrossRaises \/ CrossYields \/ CrossStops

SpecCross == InitCross /\ [][NextCross]_vars

\* ------------------------------------------------- cross given a cross
\* The list of the first n configurations of position q
ListOf(q, n) == [kind |-> "list", items |-> [i \in 1..n |-> Element(q, i)]]

\* The value of cross(*lists): a generator, which runs only when iterated
CrossOf(lists) == [kind |-> "cross", lists |-> lists]

\* cross(cross(A, B), C) and cross(A, cross(B, C)) for lists A, B and C of
\* a, b and c configurations
NestedLeft(a, b, c) == <<CrossOf(<<ListOf(1, a), ListOf(2, b)>>), ListOf(3, c)>>
NestedRight(a, b, c) == <<ListOf(1, a), CrossOf(<<ListOf(2, b), ListOf(3, c)>>)>>

\* list(cross(...)) of one of the two, for lists of up to MaxList
InitNested ==
    /\ prefix = <<>>
    /\ afterCmd = "None"
    /\ dryRunMode = FALSE
    /\ popen = "Popen_reporting"
    /\ argvNoDry = FALSE
    /\ stats = [ran |-> 0, submitted |-> 0, jobs |-> 0]
    /\ pc = "cross"
    /\ call = [NoCall EXCEPT !.op = "cross"]
    /\ idx = 0
    /\ sem = 0
    /\ thr = <<>>
    /\ procs = [k \in {} |-> NoProc]
    /\ handles = <<>>
    /\ gen = NoGen
    /\ job = NoJob
    /\ qsubs = <<>>
    /\ fs = [dirs |-> {}, files |-> {}]
    /\ out = <<>>
    /\ err = [k \in {} |-> <<>>]
    /\ work = [run |-> 0, sub |-> 0, calls |-> 0]
    /\ groups = <<>>
    /\ \E a, b, c \in 0..MaxList :
          config_lists \in {NestedLeft(a, b, c), NestedRight(a, b, c)}
    /\ frames = <<>>
    /\ passed = NewPassed(config_lists)
    /\ product = <<>>

NextNested == CrossYields \/ CrossStops

SpecNested == InitNested /\ [][NextNested]_vars

\* ---------------------------------------------------------------- claims
\* ceil(n / m) for n >= 0 and m >= 1, stated without the code's formula
CeilDiv(n, m) == CHOOSE q \in 0..n : q * m >= n /\ (q = 0 \/ (q - 1) * m < n)

\* The processes of the configurations of a run_configs call
RunProcs == {k \in DOMAIN procs : k >= 1}

\* Those launched and not yet exited
InFlight == {k \in RunProcs : procs[k].state = "running"}

\* The main submissions of the call, in order
Mains == SelectSeq(qsubs, LAMBDA q : q.kind = "main")

RECURSIVE Concat(_)
\* The groups of a sequence of groups, one after the other
Concat(parts) ==
    IF parts = <<>> THEN <<>> ELSE Head(parts) \o Concat(Tail(parts))

RECURSIVE SumLens(_)
SumLens(seqs) == IF seqs = <<>> THEN 0 ELSE Len(Head(seqs)) + SumLens(Tail(seqs))

\* C1: in run_configs with max_parallel = P > 0, the processes launched and
\* not yet exited are never more than P.
C1_InFlightAtMostP ==
    (call.op = "run" /\ call.max_parallel > 0)
        => Cardinality(InFlight) <= call.max_parallel

\* C1 witness: P = 2, three configurations, two processes in flight and the
\* caller blocked at the gate with the third configuration.
C1_Witness ==
    /\ call.op = "run" /\ call.max_parallel = 2 /\ Len(call.configs) = 3
    /\ popen = "Popen_reporting"
    /\ pc = "acquire" /\ idx = 3 /\ sem = 0
    /\ Cardinality(InFlight) = 2

\* C2: in both paths of run_configs the after-command is launched at most
\* once, only when one is configured, only after every configuration's
\* process has exited and every worker has released its unit; when the call
\* returns it has been launched exactly once if configured and not at all
\* otherwise.
C2_AfterCommandOnceAfterAll ==
    call.op = "run" =>
        /\ call.after_launches <= 1
        /\ (call.after_launches = 1) = (procs[0].state # "none")
        /\ call.after_launches = 1 =>
              /\ afterCmd # "None"
              /\ \A k \in RunProcs : procs[k].state = "exited"
              /\ \A k \in DOMAIN thr : thr[k] = "done"
        /\ pc = "returned" =>
              call.after_launches = (IF afterCmd # "None" THEN 1 ELSE 0)

\* C2 witness: a bounded call over three configurations has returned after
\* launching the configured after-command.
C2_Witness ==
    /\ call.op = "run" /\ call.max_parallel = 2 /\ Len(call.configs) = 3
    /\ pc = "returned"
    /\ call.after_launches = 1
    /\ procs[0].cmd = "after" /\ procs[0].state = "exited"

\* C3: when a run_configs call over n configurations returns, stats.ran has
\* grown by exactly n, and between calls stats.ran is the sum of the sizes of
\* all the run_configs calls made.
C3_RanCountsEveryInput ==
    /\ pc \in {"idle", "returned"} => stats.ran = work.run
    /\ (pc = "returned" /\ call.op = "run")
          => stats.ran = call.entry.stats.ran + Len(call.configs)

\* C3 witness: a second call, bounded and over two configurations, returns
\* with stats.ran = 3 after a first call over one configuration.
C3_Witness ==
    /\ pc = "returned" /\ call.op = "run" /\ call.max_parallel = 2
    /\ Len(call.configs) = 2
    /\ call.entry.stats.ran = 1
    /\ stats.ran = 3

\* C4: for n >= 1 items and max_len >= 1, _divide_equally yields
\* ceil(n / max_len) groups, each of 1 to max_len items, of sizes that differ
\* by at most 1, the n mod (number of groups) larger ones first.
C4_GroupsAreBalanced ==
    (pc = "divided" /\ Len(call.configs) >= 1 /\ call.per_job >= 1) =>
        LET n == Len(call.configs)
            g == Len(groups)
        IN  /\ g = CeilDiv(n, call.per_job)
            /\ \A k \in 1..g : Len(groups[k]) \in 1..call.per_job
            /\ \A j, k \in 1..g : Len(groups[j]) - Len(groups[k]) <= 1
            /\ \A k \in 1..g :
                  Len(groups[k]) = (n \div g) + (IF k <= n % g THEN 1 ELSE 0)

\* C4 witness: 10 items with max_len 4 have been divided into sizes 4, 3, 3.
C4_Witness ==
    /\ pc = "divided" /\ Len(call.configs) = 10 /\ call.per_job = 4
    /\ [k \in 1..Len(groups) |-> Len(groups[k])] = <<4, 3, 3>>

\* C5: for n >= 1 items and max_len >= 1, the groups _divide_equally yields,
\* concatenated in yield order, are the input sequence.
C5_GroupsConcatenateToInput ==
    (pc = "divided" /\ Len(call.configs) >= 1 /\ call.per_job >= 1)
        => Concat(groups) = call.configs

\* C5 witness: seven items with max_len 3 have been divided into three
\* contiguous groups in input order.
C5_Witness ==
    /\ pc = "divided" /\ call.per_job = 3
    /\ groups = << <<1, 2, 3>>, <<4, 5>>, <<6, 7>> >>

\* C6: a live submit_configs call over n >= 1 configurations with
\* per_job >= 1 makes ceil(n / per_job) main submissions, the i-th (from 0)
\* named <name>.<i in two digits>, all names distinct, and returns with
\* stats.jobs grown by ceil(n / per_job) and stats.submitted grown by n.
C6_MainSubmissions ==
    (pc = "returned" /\ call.op = "submit" /\ ~dryRunMode
        /\ Len(call.configs) >= 1 /\ call.per_job >= 1) =>
        LET n == Len(call.configs)
            g == CeilDiv(n, call.per_job)
        IN  /\ Len(Mains) = g
            /\ \A i \in 0..(g - 1) :
                  Mains[i + 1].name
                      = JobBase \o <<".", Digit(i \div 10), Digit(i % 10)>>
            /\ \A i, j \in 1..g : i # j => Mains[i].name # Mains[j].name
            /\ stats.jobs = call.entry.stats.jobs + g
            /\ stats.submitted = call.entry.stats.submitted + n

\* C6 witness: three configurations with per_job 2 were submitted live as
\* n.00 and n.01.
C6_Witness ==
    /\ pc = "returned" /\ call.op = "submit" /\ ~dryRunMode
    /\ Len(call.configs) = 3 /\ call.per_job = 2
    /\ Len(Mains) = 2
    /\ Mains[2].name = <<"n", ".", "0", "1">>
    /\ stats.jobs = call.entry.stats.jobs + 2

\* C7: in a live submit_configs call with an after-command, every main
\* submission is followed, before anything else is submitted, by the
\* submission of the after-script as the job <job_name>a depending on
\* afterany:<the main job's identifier, trimmed>; the after-command is never
\* a line of a main script; without an after-command no after-job is
\* submitted.
C7_AfterJobChained ==
    call.op = "submit" =>
        \A i \in 1..Len(qsubs) :
            /\ qsubs[i].kind = "main" =>
                  /\ \A l \in 1..Len(qsubs[i].stdin) :
                        qsubs[i].stdin[l].kind # "after"
                  /\ afterCmd # "None" =>
                        IF i < Len(qsubs) THEN qsubs[i + 1].kind = "after"
                                          ELSE pc = "sub_after"
            /\ qsubs[i].kind = "after" =>
                  /\ afterCmd # "None"
                  /\ i > 1
                  /\ qsubs[i - 1].kind = "main"
                  /\ qsubs[i].group = qsubs[i - 1].group
                  /\ qsubs[i].name = qsubs[i - 1].name \o <<"a">>
                  /\ qsubs[i].depend
                        = <<"afterany:">>
                          \o SelectSeq(qsubs[i - 1].stdout,
                                       LAMBDA c : c \notin Whitespace)
                  /\ qsubs[i].stdin[Len(qsubs[i].stdin)].kind = "after"

\* C7 witness: the second group's after-job was submitted as n.01a, depending
\* on the identifier " 8\n" trimmed to "8".
C7_Witness ==
    /\ call.op = "submit" /\ pc = "returned" /\ afterCmd # "None"
    /\ Len(qsubs) = 4
    /\ qsubs[3].stdout = <<" ", "8", "\n">>
    /\ qsubs[4].name = <<"n", ".", "0", "1", "a">>
    /\ qsubs[4].depend = <<"afterany:", "8">>

\* The wait on configuration k's process has returned.
Waited(k) ==
    IF call.max_parallel = 0
    THEN (pc = "all_wait" /\ k < idx) \/ pc \in {"after", "after_wait", "returned"}
    ELSE thr[k] = "done"

\* Exactly the diagnostic of configuration k's exit code is on stderr.
Diagnosed(k) ==
    IF procs[k].code = 0
    THEN err[k] = <<>>
    ELSE /\ Len(err[k]) = 2
         /\ err[k][1].label = <<"config", k>>
         /\ procs[k].code > 0 => err[k][1].kind = "error" /\ err[k][1].n = procs[k].code
         /\ procs[k].code < 0 => err[k][1].kind = "signal" /\ err[k][1].n = 0 - procs[k].code
         /\ err[k][2].kind = "last"

\* C8: in run_configs a configuration whose process exits non-zero or is
\* killed by a signal gets its diagnostic and nothing else happens: no
\* worker dies of it, the call is never blocked by it, and when the call
\* returns every configuration was launched and waited on and the
\* after-command (if configured) has run.
C8_FailureIsOnlyReported ==
    (call.op = "run" /\ popen = "Popen_reporting" /\ pc # "raised") =>
        /\ \A k \in RunProcs :
              IF Waited(k)
              THEN procs[k].state = "exited" /\ Diagnosed(k)
              ELSE err[k] = <<>>
        /\ \A k \in DOMAIN thr : thr[k] = "dead" => procs[k].state = "none"
        /\ (\A k \in DOMAIN thr : thr[k] # "dead") => ENABLED Next
        /\ pc = "returned" =>
              /\ \A k \in RunProcs : Waited(k)
              /\ afterCmd # "None" => procs[0].state = "exited"

\* C8 witness: a bounded call returned although its first process exited
\* with code 3 and its second was killed by signal 9; the third and the
\* after-command ran.
C8_Witness ==
    /\ call.op = "run" /\ popen = "Popen_reporting" /\ pc = "returned"
    /\ call.max_parallel = 2 /\ Len(call.configs) = 3
    /\ procs[1].code = 3 /\ procs[2].code = 0 - 9
    /\ procs[3].state = "exited" /\ procs[3].code = 0
    /\ err[1][1].kind = "error" /\ err[2][1].name = "SIGKILL"
    /\ procs[0].state = "exited"

\* C9: once dry-run mode is selected, a run_configs or submit_configs call
\* launches no process (not even a stand-in), submits nothing, writes no
\* file and creates no directory, and submit_configs has printed the job name
\* and the script of every group when it returns.
C9_DryRunTouchesNothing ==
    (dryRunMode /\ call.op \in {"run", "submit"}) =>
        /\ \A k \in DOMAIN procs : procs[k].state = "none"
        /\ qsubs = <<>>
        /\ fs.files = {}
        /\ fs.dirs = call.entry.dirs
        /\ (pc = "returned" /\ call.op = "submit") =>
              /\ Len(out) = 2 * gen.i
              /\ \A i \in 1..gen.i :
                    out[2 * i - 1].kind = "job" /\ out[2 * i].kind = "script"

\* C10: stats.jobs is the number of main scripts submitted to the queue
\* command and stats.submitted the number of configurations in them, in live
\* and in dry-run mode; stated where it is weakest: when a submit_configs
\* call over n >= 1 configurations with per_job >= 1 has returned, for the
\* growth of the counters over that call.
C10_CountersMatchSubmissions ==
    (pc = "returned" /\ call.op = "submit"
        /\ Len(call.configs) >= 1 /\ call.per_job >= 1) =>
        /\ stats.jobs - call.entry.stats.jobs = Len(Mains)
        /\ stats.submitted - call.entry.stats.submitted
              = SumLens([i \in 1..Len(Mains) |-> Mains[i].group])

\* The after-command as run_configs rendered it: the arguments of the
\* process launched or, in a dry run, the command line printed last.
RenderedAfter ==
    IF popen = "dummy_Popen" THEN out[Len(out)].text ELSE procs[0].args

\* What the placeholder config_names became in a rendered after-command.
ConfigNames(args) ==
    LET k == CHOOSE k \in 1..Len(args) : args[k][1] = "names" IN args[k][2]

\* C11: in every run_configs call with an after-command, the config_names
\* placeholder of the rendered after-command is the names of all the
\* configurations of the call, in input order, whether the call was given a
\* list or the single-pass sequence that cross returns.
C11_AfterCommandNamesAll ==
    (call.op = "run" /\ call.after_launches = 1) =>
        ConfigNames(RenderedAfter)
            = [k \in 1..Len(call.configs) |-> Name(call.configs[k])]

\* An argument of cross read as a list
AsList(arg) == IF arg.kind = "list" THEN arg.items ELSE <<arg.config>>

RECURSIVE Weight(_)
\* The number of combinations of the arguments after the p-th
Weight(p) ==
    IF p >= Len(config_lists) THEN 1
    ELSE Len(AsList(config_lists[p + 1])) * Weight(p + 1)

\* The element of the p-th argument that the combination at position q
\* (from 0, in lexicographic order, the first argument outermost) is made of
Chosen(q, p) ==
    LET l == AsList(config_lists[p])
    IN  l[((q \div Weight(p)) % Len(l)) + 1]

RECURSIVE NamesFrom(_, _)
NamesFrom(q, p) ==
    IF p = Len(config_lists) THEN Chosen(q, p).name
    ELSE Chosen(q, p).name \o <<"-">> \o NamesFrom(q, p + 1)

RECURSIVE ArgsFrom(_, _)
ArgsFrom(q, p) ==
    IF p > Len(config_lists) THEN <<>>
    ELSE Chosen(q, p).args \o ArgsFrom(q, p + 1)

\* C12: cross of k >= 1 lists yields the product of their lengths many
\* configurations, in lexicographic order with the first list outermost, each
\* named by its elements' names joined with "-" and with their args
\* concatenated; for two lists A and B the element at i*len(B)+j is
\* A[i] + B[j]; a bare Config counts as the list of itself; a single list is
\* yielded unchanged.
C12_CrossIsTheProduct ==
    (pc = "crossed") =>
        /\ Len(product) = Weight(0)
        /\ \A q \in 0..(Len(product) - 1) :
              /\ product[q + 1].name = NamesFrom(q, 1)
              /\ product[q + 1].args = ArgsFrom(q, 1)
        /\ Len(config_lists) = 2 =>
              LET A == AsList(config_lists[1])
                  B == AsList(config_lists[2])
              IN  /\ Len(product) = Len(A) * Len(B)
                  /\ \A i \in 0..(Len(A) - 1), j \in 0..(Len(B) - 1) :
                        /\ product[i * Len(B) + j + 1].name
                              = A[i + 1].name \o <<"-">> \o B[j + 1].name
                        /\ product[i * Len(B) + j + 1].args
                              = A[i + 1].args \o B[j + 1].args
        /\ Len(config_lists) = 1 => product = AsList(config_lists[1])

\* C12 witness: a list of three crossed with a list of two gave six
\* configurations, the fourth being the second of the first list combined
\* with the second of the second.
C12_Witness ==
    /\ pc = "crossed" /\ Len(config_lists) = 2
    /\ config_lists[1].kind = "list" /\ Len(config_lists[1].items) = 3
    /\ config_lists[2].kind = "list" /\ Len(config_lists[2].items) = 2
    /\ Len(product) = 6
    /\ product[4].name = << <<1, 2>>, "-", <<2, 2>> >>
    /\ product[4].args = << <<1, 2, 1>>, <<2, 2, 1>> >>

\* C13: _divide_equally called with no item or with max_len <= 0 ends in an
\* error: it never completes normally (with no group or otherwise) and never
\* yields an empty group.
C13_MisuseFailsFast ==
    (call.op = "divide" /\ (Len(call.configs) = 0 \/ call.per_job <= 0)) =>
        /\ pc # "divided"
        /\ \A k \in 1..Len(groups) : groups[k] # <<>>

\* The lines of one kind among the lines written to stderr
LinesOf(lines, kind) == SelectSeq(lines, LAMBDA l : l.kind = kind)

\* C14: wait on a failure-reporting process returns the exit code and writes
\* to stderr according to it: nothing for 0; for a code > 0 exactly one
\* "<label> returned error <code>." line; for a code < 0 exactly one
\* "<label> was terminated by signal <NAME> (<N>)." line with N = -code; after
\* that line the trailing error-log report, empty without a log path.
C14_WaitReportsByExitCode ==
    \A k \in DOMAIN procs :
        (procs[k].reporting /\ procs[k].waited) =>
            LET p == procs[k]
                label == IF k = 0 THEN <<"after command", 0>> ELSE <<"config", k>>
            IN  /\ p.returncode = p.code
                /\ p.code = 0 => err[k] = <<>>
                /\ p.code # 0 =>
                      /\ Len(err[k]) = 2
                      /\ err[k][1].label = label /\ err[k][2].label = label
                      /\ err[k][2].kind = "last"
                      /\ ~p.hasDir => err[k][2].errors = ""
                /\ p.code > 0 =>
                      /\ Len(LinesOf(err[k], "error")) = 1
                      /\ LinesOf(err[k], "signal") = <<>>
                      /\ err[k][1].kind = "error" /\ err[k][1].n = p.code
                /\ p.code < 0 =>
                      /\ Len(LinesOf(err[k], "signal")) = 1
                      /\ LinesOf(err[k], "error") = <<>>
                      /\ err[k][1].kind = "signal" /\ err[k][1].n = 0 - p.code
                      /\ p.code = 0 - 9 => err[k][1].name = "SIGKILL"

\* C14 witness: in one call the waits returned 0, 3 and -9: the first process
\* exited 0 silently, the second with error 3 and a log excerpt, and the
\* after-command, which has no log, was killed by signal 9.
C14_Witness ==
    /\ call.op = "run" /\ pc = "returned" /\ Len(call.configs) = 2
    /\ procs[1].reporting /\ procs[1].waited /\ procs[1].returncode = 0
    /\ err[1] = <<>>
    /\ procs[2].waited /\ procs[2].returncode = 3
    /\ err[2][1].kind = "error" /\ err[2][1].n = 3 /\ err[2][2].errors = "tail"
    /\ procs[0].waited /\ procs[0].returncode = 0 - 9
    /\ err[0][1].kind = "signal" /\ err[0][1].n = 9
    /\ err[0][2].kind = "last" /\ err[0][2].errors = ""

\* The after submissions of the call, in order
Afters == SelectSeq(qsubs, LAMBDA q : q.kind = "after")

\* The main scripts the call has rendered and handed on so far: submitted
\* or, in a dry run, printed
Scripts ==
    IF dryRunMode
    THEN LET printed == SelectSeq(out, LAMBDA o : o.kind = "script")
         IN  [i \in 1..Len(printed) |-> printed[i].text]
    ELSE [i \in 1..Len(Mains) |-> Mains[i].stdin]

\* The configurations of the command lines of a script, in line order
RunConfs(script) ==
    LET lines == SelectSeq(script, LAMBDA l : l.kind = "run")
    IN  [k \in 1..Len(lines) |-> lines[k].conf]

\* C15: in a submit_configs call (over n >= 1 configurations, per_job >= 1)
\* the groups are processed one after the other in index order: while group
\* i is rendered, saved and submitted, the groups before it have their main
\* and after submissions complete and no later group has any, and a saved
\* script is on file before it is submitted; the main scripts hold one
\* backgrounded command line per configuration taken so far, in input order,
\* all of them when the call returns, and each script ends with a wait.
C15_GroupsInOrderOneLineEach ==
    (call.op = "submit" /\ Len(call.configs) >= 1 /\ call.per_job >= 1) =>
        LET withAfter(m) == IF afterCmd # "None" THEN m ELSE 0
            lines == Concat([i \in 1..Len(Scripts) |-> RunConfs(Scripts[i])])
        IN  /\ ~dryRunMode =>
                  /\ pc \in {"sub_render", "sub_persist", "sub_main"} =>
                        Len(Mains) = job.i /\ Len(Afters) = withAfter(job.i)
                  /\ pc = "sub_after" =>
                        Len(Mains) = job.i + 1 /\ Len(Afters) = job.i
                  /\ pc \in {"sub_next", "returned"} =>
                        Len(Mains) = idx /\ Len(Afters) = withAfter(idx)
                  /\ IF call.save_pbs
                     THEN \A i \in 1..Len(Mains) :
                             [name |-> Mains[i].name \o <<".pbs">>,
                              text |-> Mains[i].stdin] \in fs.files
                     ELSE fs.files = {}
            /\ \A i \in 1..Len(Scripts) :
                  /\ Scripts[i][Len(Scripts[i])].kind = "wait"
                  /\ \A l \in 1..Len(Scripts[i]) :
                        Scripts[i][l].kind = "run" => Scripts[i][l].background
                  /\ RunConfs(Scripts[i]) # <<>>
            /\ lines = SubSeq(call.configs, 1, Len(lines))
            /\ pc = "returned" => lines = call.configs

\* C15 witness: three configurations were submitted live two per job with an
\* after-command and saved scripts: main, after, main, after, the first
\* script with the lines of configurations 1 and 2, the second with that of
\* configuration 3.
C15_Witness ==
    /\ call.op = "submit" /\ pc = "returned" /\ ~dryRunMode /\ call.save_pbs
    /\ Len(call.configs) = 3 /\ call.per_job = 2
    /\ [i \in 1..Len(qsubs) |-> qsubs[i].kind] = <<"main", "after", "main", "after">>
    /\ RunConfs(qsubs[1].stdin) = <<1, 2>>
    /\ RunConfs(qsubs[3].stdin) = <<3>>
    /\ Cardinality(fs.files) = 4

\* A main submission failed: the queue command exited non-zero or printed no
\* job identifier.
Failed(q) == q.kind = "main" /\ (q.code # 0 \/ Strip(q.stdout) = <<>>)

\* C16: a live submit_configs call (n >= 1, per_job >= 1) submits each
\* group's main script at most once and does not react to a failed main
\* submission: it writes nothing to stderr, it prints only what the queue
\* command answered, it still submits the after-job, depending on
\* "afterany:" followed by whatever text came back, it goes on with the
\* remaining groups, and the counters count the failed group like any other.
C16_FailedSubmissionIgnored ==
    (call.op = "submit" /\ ~dryRunMode
        /\ Len(call.configs) >= 1 /\ call.per_job >= 1) =>
        /\ \A i, j \in 1..Len(Mains) :
              i # j => Mains[i].name # Mains[j].name /\ Mains[i].group # Mains[j].group
        /\ \A k \in DOMAIN err : err[k] = <<>>
        /\ out = [i \in 1..Len(Mains) |-> [kind |-> "job_id", text |-> Mains[i].stdout]]
        /\ \A i \in 1..Len(qsubs) :
              (Failed(qsubs[i]) /\ afterCmd # "None") =>
                  IF i = Len(qsubs) THEN pc = "sub_after"
                  ELSE /\ qsubs[i + 1].kind = "after"
                       /\ qsubs[i + 1].depend
                             = <<"afterany:">> \o SelectSeq(qsubs[i].stdout,
                                                     LAMBDA c : c \notin Whitespace)
        /\ pc = "returned" =>
              /\ Len(Mains) = CeilDiv(Len(call.configs), call.per_job)
              /\ stats.jobs = call.entry.stats.jobs + Len(Mains)
              /\ stats.submitted = call.entry.stats.submitted + Len(call.configs)

\* C16 witness: the first of two main submissions failed (exit code 1, no
\* identifier); its after-job was submitted depending on "afterany:", the
\* second group was submitted, and both jobs and both configurations were
\* counted.
C16_Witness ==
    /\ call.op = "submit" /\ pc = "returned" /\ ~dryRunMode
    /\ Len(call.configs) = 2 /\ call.per_job = 1
    /\ Len(qsubs) = 4
    /\ Failed(qsubs[1]) /\ qsubs[1].code = 1 /\ qsubs[1].stdout = <<>>
    /\ qsubs[2].kind = "after" /\ qsubs[2].depend = <<"afterany:">>
    /\ qsubs[3].kind = "main" /\ ~Failed(qsubs[3])
    /\ stats.jobs = call.entry.stats.jobs + 2
    /\ stats.submitted = call.entry.stats.submitted + 2

\* The configurations whose process has been launched, and those whose
\* process has been waited on
Launched == {k \in RunProcs : procs[k].state # "none"}
WaitedOn == {k \in RunProcs : procs[k].waited}

\* C17: in run_configs with max_parallel = 0 the processes are launched in
\* input order, all of them before the first wait; they are waited on in
\* input order; and at every point of the call stats.ran has grown by the
\* number of waits that have returned, whatever the number of processes
\* launched.
C17_UnboundedCountsWaits ==
    (call.op = "run" /\ call.max_parallel = 0) =>
        /\ Launched = 1..Cardinality(Launched)
        /\ handles = [i \in 1..Cardinality(Launched) |-> i]
        /\ WaitedOn = 1..Cardinality(WaitedOn)
        /\ WaitedOn # {} => Launched = 1..Len(call.configs)
        /\ stats.ran - call.entry.stats.ran = Cardinality(WaitedOn)

\* C17 witness: three processes are launched, the second has exited before
\* the others, one wait has returned and one run is counted.
C17_Witness ==
    /\ call.op = "run" /\ call.max_parallel = 0 /\ Len(call.configs) = 3
    /\ pc = "all_wait"
    /\ Launched = {1, 2, 3}
    /\ WaitedOn = {1}
    /\ procs[2].state = "exited" /\ procs[3].state = "running"
    /\ stats.ran = call.entry.stats.ran + 1

\* The configurations whose worker the calling thread has started
Spawned == {k \in DOMAIN thr : thr[k] # "none"}

\* In a bounded call stats.ran is the number of workers spawned, the one
\* spawned last being counted in the caller's next step.
RanIsSpawned ==
    (call.op = "run" /\ call.max_parallel > 0) =>
        /\ Spawned = 1..Cardinality(Spawned)
        /\ stats.ran - call.entry.stats.ran
              = Cardinality(Spawned) - (IF pc = "count" THEN 1 ELSE 0)

\* In a bounded call stats.ran changes only in the calling thread's step
\* after the spawn, by one, for the configuration just spawned, with a unit
\* acquired for it; no step of a worker or of a process changes it.
RanStep ==
    (call.op = "run" /\ call.max_parallel > 0 /\ stats'.ran # stats.ran) =>
        /\ pc = "count"
        /\ stats'.ran = stats.ran + 1
        /\ thr[idx] # "none" /\ idx = Cardinality(Spawned)
        /\ thr' = thr /\ procs' = procs /\ sem' = sem

\* C18: in run_configs with max_parallel > 0, stats.ran counts the runs
\* initiated: only the calling thread increments it, once per configuration
\* right after spawning that configuration's worker, in input order, and
\* never a worker; so it does not depend on the processes completed.
C18_BoundedCountsSpawns == []RanIsSpawned /\ [][RanStep]_vars

\* C18 witness: two workers are spawned and counted while neither process
\* has exited, the second not even launched.
C18_Witness ==
    /\ call.op = "run" /\ call.max_parallel = 2 /\ Len(call.configs) = 2
    /\ pc = "drain"
    /\ stats.ran = call.entry.stats.ran + 2
    /\ procs[1].state = "running" /\ thr[2] = "started"
    /\ procs[2].state = "none"

\* The would-be command lines printed in this call
PrintedCmds == SelectSeq(out, LAMBDA o : o.kind = "cmd")

\* A call in dry-run mode prints and neither launches the simulator or the
\* after-command nor submits: every process is the stand-in, one command
\* line is printed per launch, that of each configuration launched among
\* them, and the queue command is not invoked.
ExecutesDry ==
    /\ popen = "dummy_Popen"
    /\ \A k \in DOMAIN procs : procs[k].state # "none" => procs[k].cmd = "true"
    /\ call.op = "run" =>
          /\ Len(PrintedCmds)
                = Cardinality({k \in DOMAIN procs : procs[k].state # "none"})
          /\ \A k \in RunProcs :
                procs[k].state # "none" =>
                    \E i \in 1..Len(PrintedCmds) :
                        PrintedCmds[i].text = CommandLine(call.configs[k])
    /\ qsubs = <<>>

\* C19 as the specification states it: whenever dry_run() is called the
\* process is in dry-run mode afterwards, and a process in dry-run mode
\* executes its calls dry.  (That no operation leads back to live mode is
\* part of C19_DryRunSticksUnlessNoDry.)
C19_DryRunAlwaysSelects ==
    /\ pc = "idle" => ENABLED (DryRun /\ dryRunMode')
    /\ dryRunMode => ExecutesDry

\* What holds in every state, for C19_DryRunSticksUnlessNoDry
DrySelection ==
    /\ (pc = "idle" /\ ~argvNoDry) => ENABLED (DryRun /\ dryRunMode')
    /\ argvNoDry => ~dryRunMode /\ popen = "Popen_reporting"
    /\ dryRunMode => ExecutesDry

\* What holds of every step: no way back to live mode
DryIsKept == dryRunMode => (dryRunMode' /\ popen' = "dummy_Popen")

\* C19, amended: dry_run() selects dry-run mode unless '--no-dry' is among
\* the command-line arguments, in which case it does nothing and the process
\* stays live; once selected, every run_configs and submit_configs call
\* prints instead of launching the simulator or submitting, and no operation
\* returns the process to live mode.
C19_DryRunSticksUnlessNoDry == []DrySelection /\ [][DryIsKept]_vars

\* C19 witness: after dry_run() and an earlier call, a run_configs call over
\* two configurations with an after-command has returned having printed
\* three command lines and launched nothing but stand-ins.
C19_Witness ==
    /\ dryRunMode /\ ~argvNoDry
    /\ call.op = "run" /\ pc = "returned" /\ Len(call.configs) = 2
    /\ work.calls = 3
    /\ Len(PrintedCmds) = 3
    /\ \A k \in 0..2 : procs[k].cmd = "true" /\ procs[k].state = "exited"

\* The workers that have ended, normally or with an exception
Ended == {k \in DOMAIN thr : thr[k] \in {"done", "dead"}}

\* The units the calling thread has acquired so far: one per worker spawned,
\* one for the worker it is about to spawn, and those of the final drain
Acquired ==
    Cardinality(Spawned) + (IF pc = "start" THEN 1 ELSE 0)
        + (IF pc \in {"acquire", "start", "count"} THEN 0 ELSE idx - 1)

\* C20: in run_configs with max_parallel = P > 0 every worker that has ended
\* has released the unit acquired for it, also when its process failed to
\* start, so the units add up (value of the gate = P - acquired + one per
\* ended worker); and the call is never blocked for good: until it has
\* returned or raised, some step of the caller, of a worker or of a process
\* is possible.
C20_BoundedCallNeverBlocks ==
    (call.op = "run" /\ call.max_parallel > 0) =>
        /\ sem = call.max_parallel - Acquired + Cardinality(Ended)
        /\ pc \notin {"returned", "raised"} => ENABLED Next

\* The lists A, B and C of a nested call, whichever way it is nested
Flat ==
    IF config_lists[1].kind = "cross"
    THEN config_lists[1].lists \o <<config_lists[2]>>
    ELSE <<config_lists[1]>> \o config_lists[2].lists

\* C21: cross(cross(A, B), C) and cross(A, cross(B, C)) yield what
\* cross(A, B, C) yields: len(A)*len(B)*len(C) configurations, the one at
\* (i*len(B) + j)*len(C) + l named A[i]-B[j]-C[l] with the args of the three
\* concatenated.
C21_NestedCrossIsFlat ==
    (pc = "crossed" /\ \E p \in 1..Len(config_lists) :
                            config_lists[p].kind = "cross") =>
        LET A == Flat[1].items
            B == Flat[2].items
            C == Flat[3].items
        IN  /\ Len(product) = Len(A) * Len(B) * Len(C)
            /\ \A i \in 1..Len(A), j \in 1..Len(B), l \in 1..Len(C) :
                  LET q == ((i - 1) * Len(B) + (j - 1)) * Len(C) + l
                  IN  /\ q <= Len(product)
                      /\ product[q].name
                            = A[i].name \o <<"-">> \o B[j].name
                                \o <<"-">> \o C[l].name
                      /\ product[q].args = A[i].args \o B[j].args \o C[l].args

====
